---- MODULE Spec2Model ----
(***************************************************************************)
(* State-machine model of TurbulentFormationEnv                            *)
(* (src/environments/turbulent_formation_env.py).                          *)
(*                                                                         *)
(* Numbers are fixed point: lengths in centimetres, velocities in cm/s,    *)
(* accelerations in cm/s^2, times in milliseconds.  Every product that the *)
(* source computes in float64 is computed here in integers and rounded to  *)
(* the nearest unit with RDiv.                                             *)
(***************************************************************************)
EXTENDS Integers, Sequences, FiniteSets, TLC

VARIABLES
    model,            \* config.turbulence_model: "random" or "NS"
    p,                \* self.p: Agents -> <<x, y>>
    vel,              \* self.vel: Agents -> <<vx, vy>>
    leader_goal,      \* self.leader_goal
    final_goal,       \* self.final_goal
    formation_ref,    \* self.formation_ref
    iter,             \* self.iter
    done,             \* self.done (the attribute, not step's return value)
    rng,              \* state of the global np.random generator
    turbulence_seeds, \* self.turbulence_seeds (random variant)
    direction,        \* self.direction (random variant)
    wind_sim_dict,    \* self.wind_sim_dict (NS variant): name -> entry
    selected_sim,     \* self.selected_sim (NS variant)
    ret,              \* outcome of the last call (history)
    leader_vel,       \* step's local leader_vel in the last step (history)
    sim_in,           \* arguments and pre-state of the last integrator call (history)
    loads,            \* name -> number of times its files were read from disk (history)
    resets,           \* number of reset() calls so far (history)
    steps,            \* number of completed step() calls so far (history)
    ep_steps          \* completed step() calls since construction or the last reset() (history)

vars == <<model, p, vel, leader_goal, final_goal, formation_ref, iter, done, rng,
          turbulence_seeds, direction, wind_sim_dict, selected_sim, ret,
          leader_vel, sim_in, loads, resets, steps, ep_steps>>

(***************************************************************************)
(* Bounds of the exploration                                               *)
(***************************************************************************)
\* reset() is called at most this many times in a behaviour
MaxResets == 2
\* at most this many step() calls complete in a behaviour
MaxTotalSteps == 455
\* a caller that resets in mid-episode does so when iter has this value
ResetMid == 200
\* coordinates beyond this magnitude (cm) are outside the fixed-point range
MaxCoord == 15000
\* speeds beyond this magnitude (cm/s) are outside the fixed-point range
MaxSpeed == 15000

(***************************************************************************)
(* Program constants (__init__)                                            *)
(***************************************************************************)
n_agents == 3
Agents == 0 .. (n_agents - 1)
\* xmin, xmax, ymin, ymax in cm (the source indexes them 0..3)
bounds == <<-500, 500, -500, 500>>
\* rho = 1.184 in 1/1000
rho == 1184
\* c_d = 0.47 in 1/100
c_d == 47
\* m = 0.2 kg in 1/10
m == 2
\* robot_radius = 0.05 m in cm
robot_radius == 5
\* K_p = 1.0 * 5
K_p == 5
\* K_d = 0.5 * 5, in 1/10
K_d == 25
\* dt = 0.033 s in ms
dt == 33
max_episode_steps == 450
\* the warm-up of the leader goal: step() compares iter with 100
warmup_iter == 100
num_dist_seeds == 5
Seeds == 0 .. (num_dist_seeds - 1)

\* an array indexed by the agents, built element by element
PerAgent(F(_)) == (0 :> F(0)) @@ (1 :> F(1)) @@ (2 :> F(2))
\* an array indexed by the turbulence seeds
PerSeed(F(_)) == (0 :> F(0)) @@ (1 :> F(1)) @@ (2 :> F(2)) @@ (3 :> F(3)) @@ (4 :> F(4))

Zero2 == <<0, 0>>
initial_leader_goal == <<200, 200>>
initial_final_goal == <<0, 0>>
\* [[0, 0], [1, 0], [1/sqrt 2, 1/sqrt 2]]
initial_formation_ref == (0 :> <<0, 0>>) @@ (1 :> <<100, 0>>) @@ (2 :> <<71, 71>>)

\* self.G: edges (0,1), (1,2), (2,0); G.neighbors(i) in insertion order
Neighbors(i) == CASE i = 0 -> <<1, 2>>
                  [] i = 1 -> <<0, 2>>
                  [] OTHER -> <<1, 0>>

(***************************************************************************)
(* Arithmetic                                                              *)
(***************************************************************************)
Abs(x) == IF x < 0 THEN -x ELSE x

\* a / b rounded to the nearest integer (b > 0), as a float quotient rounds
RDiv(a, b) == IF a >= 0 THEN (a + b \div 2) \div b
                        ELSE -((b \div 2 - a) \div b)

RECURSIVE Newton(_, _)
\* Newton's iteration for the integer square root of n > 0, from x >= sqrt(n)
Newton(n, x) == LET y == (x + n \div x) \div 2
                IN IF y >= x THEN x ELSE Newton(n, y)

\* a power of two that is at least sqrt(n)
SqrtGuess(n) ==
    IF n < 65536
    THEN IF n < 256 THEN (IF n < 16 THEN 4 ELSE 16)
                    ELSE (IF n < 4096 THEN 64 ELSE 256)
    ELSE IF n < 16777216 THEN (IF n < 1048576 THEN 1024 ELSE 4096)
                         ELSE (IF n < 268435456 THEN 16384 ELSE 46341)

\* np.sqrt on the fixed-point grid: the integer square root
ISqrt(n) == IF n = 0 THEN 0 ELSE Newton(n, SqrtGuess(n))

\* np.linalg.norm of a 2-vector
Norm(v) == ISqrt(v[1] * v[1] + v[2] * v[2])

VAdd(a, b) == <<a[1] + b[1], a[2] + b[2]>>
VSub(a, b) == <<a[1] - b[1], a[2] - b[2]>>

InRange(v, lim) == Abs(v[1]) <= lim /\ Abs(v[2]) <= lim

(***************************************************************************)
(* np.random: a deterministic generator with hidden state.  The model uses *)
(* a full-period linear congruential generator on 0..999; a draw r in      *)
(* [0, 1) is rng / 1000.                                                   *)
(***************************************************************************)
NextRng(x) == (381 * x + 7) % 1000

RECURSIVE RngAfter(_, _)
\* the generator state after k draws
RngAfter(x, k) == IF k = 0 THEN x ELSE RngAfter(NextRng(x), k - 1)

\* variant: the draw is scaled but not shifted to xmin
UniformInBounds_NoOffset(r) == ((bounds[2] - bounds[1]) * r) \div 1000

\* (xmax - xmin) * np.random.rand() + xmin
UniformInBounds(r) == ((bounds[2] - bounds[1]) * r) \div 1000 + bounds[1]

\* np.sign(np.random.rand() - 0.5)
SignDraw(r) == IF r > 500 THEN 1 ELSE IF r < 500 THEN -1 ELSE 0

\* np.random.randint(n)
RandInt(r, n) == (r * n) \div 1000

RECURSIVE Draws(_, _)
\* the next n draws of the generator in state x, in order
Draws(x, n) == IF n = 0 THEN <<>>
               ELSE <<NextRng(x)>> \o Draws(NextRng(x), n - 1)

\* (xmax - xmin) * np.random.rand(n_agents, 2) + xmin, row-major draws
RandomPositions(x) ==
    LET d == Draws(x, 2 * n_agents)
    IN PerAgent(LAMBDA i : <<UniformInBounds(d[2 * i + 1]), UniformInBounds(d[2 * i + 2])>>)

\* setup_random_turbulence: 2*K draws for the seeds, then K for the directions
setup_random_turbulence(x) ==
    LET d == Draws(x, 3 * num_dist_seeds)
    IN [turbulence_seeds |->
            PerSeed(LAMBDA k : <<UniformInBounds(d[2 * k + 1]), UniformInBounds(d[2 * k + 2])>>),
        direction |-> PerSeed(LAMBDA k : SignDraw(d[2 * num_dist_seeds + k + 1])),
        rng |-> d[3 * num_dist_seeds]]

(***************************************************************************)
(* The simulations on disk (config.turbulence_base_folder).  A file name   *)
(* is a sequence of ASCII codes; each frame is a 1x1 grid, so a frame      *)
(* holds one velocity vector (cm/s).                                       *)
(***************************************************************************)
\* "state_phys_t"
init_token == <<115, 116, 97, 116, 101, 95, 112, 104, 121, 115, 95, 116>>
\* ".nc"
end_token == <<46, 110, 99>>

\* the file state_phys_t<text>.nc holding the frame u
DataFile(text, u) == [name |-> init_token \o text \o end_token, u |-> u]

\* os.listdir(turbulence_base_folder), directories only
all_sims == <<"empty_1x1_a", "single_1x1_a", "short_1x1_a", "mixed_1x1_a", "long_1x1_a">>

\* os.listdir(sim_folder), the *.nc files of each simulation
SimFolder(name) ==
    CASE name = "empty_1x1_a" -> {}
      \* t0.000
      [] name = "single_1x1_a" -> {DataFile(<<48, 46, 48, 48, 48>>, <<30, 0>>)}
      \* t0.000, t0.033, t0.066
      [] name = "short_1x1_a" -> {DataFile(<<48, 46, 48, 48, 48>>, <<0, 0>>),
                                  DataFile(<<48, 46, 48, 51, 51>>, <<100, 0>>),
                                  DataFile(<<48, 46, 48, 54, 54>>, <<100, -60>>)}
      \* t0, t0.05
      [] name = "mixed_1x1_a" -> {DataFile(<<48>>, <<20, 20>>),
                                  DataFile(<<48, 46, 48, 53>>, <<-40, 0>>)}
      \* t00.000, t07.500, t14.900
      [] OTHER -> {DataFile(<<48, 48, 46, 48, 48, 48>>, <<0, 50>>),
                   DataFile(<<48, 55, 46, 53, 48, 48>>, <<80, 0>>),
                   DataFile(<<49, 52, 46, 57, 48, 48>>, <<0, -50>>)}

RECURSIVE LexLess(_, _)
\* Python's str < str: lexicographic on the character codes
LexLess(a, b) ==
    IF a = <<>> THEN b # <<>>
    ELSE IF b = <<>> THEN FALSE
    ELSE IF Head(a) # Head(b) THEN Head(a) < Head(b)
    ELSE LexLess(Tail(a), Tail(b))

RECURSIVE SortFiles(_)
\* sim_files.sort(): the files in the order of their names
SortFiles(S) ==
    IF S = {} THEN <<>>
    ELSE LET f == CHOOSE x \in S : \A y \in S \ {x} : LexLess(x.name, y.name)
         IN <<f>> \o SortFiles(S \ {f})

\* str.find: the 0-based index of the first occurrence of tok in s, or -1
Find(s, tok) ==
    LET hits == {i \in 1 .. (Len(s) - Len(tok) + 1) :
                    SubSeq(s, i, i + Len(tok) - 1) = tok}
    IN IF hits = {} THEN -1
       ELSE (CHOOSE i \in hits : \A j \in hits : i <= j) - 1

RECURSIVE DigitsValue(_)
\* the value of a string of decimal digits
DigitsValue(s) ==
    IF s = <<>> THEN 0
    ELSE 10 * DigitsValue(SubSeq(s, 1, Len(s) - 1)) + (s[Len(s)] - 48)

\* float(text) in ms, for a decimal with at most three fractional digits
FloatMs(text) ==
    LET dot == Find(text, <<46>>)
        ip == IF dot < 0 THEN text ELSE SubSeq(text, 1, dot)
        fp == IF dot < 0 THEN <<>> ELSE SubSeq(text, dot + 2, Len(text))
        fp3 == SubSeq(fp \o <<48, 48, 48>>, 1, 3)
    IN 1000 * DigitsValue(ip) + DigitsValue(fp3)

\* float(t[t.find(init_token) + len(init_token) : t.find(end_token)])
FileTime(t) ==
    LET from == Find(t, init_token) + Len(init_token)
        to == Find(t, end_token)
    IN FloatMs(SubSeq(t, from + 1, to))

\* the empty dict stored at line 102
EmptyEntry == [keys |-> {}, v |-> <<>>, t |-> <<>>]

\* lines 104-129: what loading the simulation `name` stores, and how it ends.
\* The failing assert formats its message with the undefined name
\* selected_sim, so the load ends in a NameError.
LoadFiles(sim_files) ==
    IF ~(Len(sim_files) > 0)
    THEN [err |-> "NameError", entry |-> EmptyEntry]
    ELSE [err |-> "none",
          entry |-> [keys |-> {"v", "p", "t"},
                     v |-> [i \in 1 .. Len(sim_files) |-> sim_files[i].u],
                     t |-> [i \in 1 .. Len(sim_files) |-> FileTime(sim_files[i].name)]]]

LoadSimulation(name) == LoadFiles(SortFiles(SimFolder(name)))

\* variant: the cache is never consulted
NeedsLoad_Always(dict, name) == TRUE

\* `self.selected_sim not in self.wind_sim_dict`
NeedsLoad(dict, name) == name \notin DOMAIN dict

\* _setup_NS_turbulence, entered with generator state x
\* lines 100-129: the selection sel is loaded, ld being the outcome
StoreLoaded(sel, x1, ld) ==
    [selected_sim |-> sel, rng |-> x1, err |-> ld.err, loaded |-> TRUE,
     wind_sim_dict |-> (sel :> ld.entry) @@ wind_sim_dict]

\* lines 98-129, sel being the selection
SetupSelected(sel, x1) ==
    IF NeedsLoad(wind_sim_dict, sel)
    THEN StoreLoaded(sel, x1, LoadSimulation(sel))
    ELSE [selected_sim |-> sel, rng |-> x1, err |-> "none", loaded |-> FALSE,
          wind_sim_dict |-> wind_sim_dict]

\* _setup_NS_turbulence, entered with generator state x
SetupWithDraw(x1) ==
    SetupSelected(all_sims[RandInt(x1, Len(all_sims)) + 1], x1)

setup_NS_turbulence(x) == SetupWithDraw(NextRng(x))

(***************************************************************************)
(* get_disturbance                                                         *)
(***************************************************************************)
\* one seed's term of lines 236-239 at the query point q, times range:
\* range * dir * (-D_y, D_x) / |D|^2 with D = seed - q.  In cm and cm/s the
\* factor is 100 * range.
Vortex(seed, dir, q) ==
    LET Dx == seed[1] - q[1]
        Dy == seed[2] - q[2]
        D_norm2 == Dx * Dx + Dy * Dy
        range == bounds[2] - bounds[1]
    IN <<RDiv(100 * range * dir * (-Dy), D_norm2),
         RDiv(100 * range * dir * Dx, D_norm2)>>

\* lines 228-239: the sum over the seeds s with directions d at the point q
VortexSum(s, d, q) ==
    VAdd(VAdd(VAdd(VAdd(Vortex(s[0], d[0], q), Vortex(s[1], d[1], q)),
                   Vortex(s[2], d[2], q)), Vortex(s[3], d[3], q)),
         Vortex(s[4], d[4], q))

\* lines 228-239: the vortex field of the seeds t at the query points.
\* finite is FALSE where the source divides by zero.
VortexField(query_points, t, finite) ==
    [err |-> "none", finite |-> finite,
     v |-> IF finite
           THEN PerAgent(LAMBDA i : VortexSum(t.turbulence_seeds, t.direction, query_points[i]))
           ELSE PerAgent(LAMBDA i : Zero2),
     turbulence_seeds |-> t.turbulence_seeds, direction |-> t.direction,
     rng |-> t.rng, current_t |-> -1, idx_left |-> -1, idx_right |-> -1]

\* no query point sits on a seed
OffSeeds(query_points, s) ==
    \A i \in Agents : \A k \in Seeds : s[k] # query_points[i]

\* lines 225-239: the seeds are drawn afresh (line 225), then the field is
\* evaluated
RandomDisturbanceOf(query_points, t) ==
    VortexField(query_points, t, OffSeeds(query_points, t.turbulence_seeds))

RandomDisturbance(query_points, x) ==
    RandomDisturbanceOf(query_points, setup_random_turbulence(x))

\* variant: the left frame is the first one at or after the query time
LeftIndex_Same(idx0) == idx0

ZeroArray == PerAgent(LAMBDA i : Zero2)

\* line 252: the 0-based index of the left frame, idx0 being idx[0]
LeftIndex(idx0) == IF idx0 - 1 > 0 THEN idx0 - 1 ELSE 0

\* line 246: `current_t <= all_t[-1]`
TimeInRange(current_t, last_t) == current_t <= last_t

\* lines 255-266 on 1x1 frames: linear in time between the two frames, the
\* time coordinate clamped to the frames (padding_mode='border')
TimeInterpolate(vL, vR, tL, tR, current_t) ==
    LET den == Abs(tR - tL)
        raw == IF tR > tL THEN current_t - tL ELSE tL - current_t
        num == IF raw < 0 THEN 0 ELSE IF raw > den THEN den ELSE raw
    IN <<vL[1] + RDiv((vR[1] - vL[1]) * num, den),
         vL[2] + RDiv((vR[2] - vL[2]) * num, den)>>

\* a query that raises e, having computed the frame indices l and r
QueryFails(e, current_t, l, r) ==
    [err |-> e, finite |-> TRUE, v |-> ZeroArray,
     turbulence_seeds |-> turbulence_seeds, direction |-> direction,
     rng |-> rng, current_t |-> current_t, idx_left |-> l, idx_right |-> r]

\* a query answered with the wind w at every point
QueryAnswered(w, is_finite, current_t, l, r) ==
    [err |-> "none", finite |-> is_finite, v |-> PerAgent(LAMBDA i : w),
     turbulence_seeds |-> turbulence_seeds, direction |-> direction,
     rng |-> rng, current_t |-> current_t, idx_left |-> l, idx_right |-> r]

\* lines 253-266, idx_left being known
InterpolateFrom(all_t, frames, current_t, idx_left, idx_right) ==
    IF idx_right > Len(all_t) - 1
    THEN QueryFails("IndexError", current_t, idx_left, idx_right)
    ELSE IF all_t[idx_right + 1] = all_t[idx_left + 1]
    THEN QueryAnswered(Zero2, FALSE, current_t, idx_left, idx_right)
    ELSE QueryAnswered(TimeInterpolate(frames[idx_left + 1], frames[idx_right + 1],
                                       all_t[idx_left + 1], all_t[idx_right + 1],
                                       current_t),
                       TRUE, current_t, idx_left, idx_right)

\* line 249: np.where(all_t >= current_t)[0], 0-based
WhereAtOrAfter(all_t, current_t) ==
    {i \in 0 .. (Len(all_t) - 1) : all_t[i + 1] >= current_t}

\* lines 246-266 on the timestamps all_t and the frames of the selection
QueryFrames(all_t, frames, current_t, idx) ==
    IF ~TimeInRange(current_t, all_t[Len(all_t)])
    THEN QueryFails("AssertionError: time out of range", current_t, -1, -1)
    ELSE IF idx = {}
    THEN QueryFails("AssertionError: no data", current_t, -1, -1)
    ELSE InterpolateFrom(all_t, frames, current_t,
                         LeftIndex(CHOOSE i \in idx : \A j \in idx : i <= j),
                         LeftIndex(CHOOSE i \in idx : \A j \in idx : i <= j) + 1)

\* lines 242-266
NSDisturbance(query_points) ==
    IF selected_sim \notin DOMAIN wind_sim_dict
         \/ "v" \notin wind_sim_dict[selected_sim].keys
    THEN QueryFails("KeyError", iter * dt, -1, -1)
    ELSE QueryFrames(wind_sim_dict[selected_sim].t, wind_sim_dict[selected_sim].v,
                     iter * dt,
                     WhereAtOrAfter(wind_sim_dict[selected_sim].t, iter * dt))

get_disturbance(query_points) ==
    IF model = "random" THEN RandomDisturbance(query_points, rng)
                        ELSE NSDisturbance(query_points)

(***************************************************************************)
(* Formation controller, drag, integrator, reward                          *)
(***************************************************************************)
\* variant: the caller's action is added to the formation law
ControlAcc_WithAction(action, goal, lv) ==
    LET lead(c) == RDiv(K_p * (goal[c] - p[0][c]), 2)
                   + RDiv(K_d * (lv[c] - vel[0][c]), 10)
        pair(i, j, c) ==
            -K_p * ((p[i][c] - p[j][c]) + (formation_ref[i][c] - formation_ref[j][c]))
            - RDiv(K_d * (vel[i][c] - vel[j][c]), 10)
        follow(i, c) == pair(i, Neighbors(i)[1], c) + pair(i, Neighbors(i)[2], c)
    IN PerAgent(LAMBDA i : IF i = 0 THEN <<lead(1) + action[1], lead(2) + action[2]>>
                                     ELSE <<follow(i, 1) + action[2 * i + 1],
                                            follow(i, 2) + action[2 * i + 2]>>)

\* lines 164-170: the commanded accelerations; `action` is step's argument
ControlAcc(action, goal, lv) ==
    LET lead(c) == RDiv(K_p * (goal[c] - p[0][c]), 2)
                   + RDiv(K_d * (lv[c] - vel[0][c]), 10)
        pair(i, j, c) ==
            -K_p * ((p[i][c] - p[j][c]) + (formation_ref[i][c] - formation_ref[j][c]))
            - RDiv(K_d * (vel[i][c] - vel[j][c]), 10)
        follow(i, c) == pair(i, Neighbors(i)[1], c) + pair(i, Neighbors(i)[2], c)
    IN PerAgent(LAMBDA i : IF i = 0 THEN <<lead(1), lead(2)>>
                                     ELSE <<follow(i, 1), follow(i, 2)>>)

\* self.area = 4 * pi * robot_radius ** 2, in cm^2
area == (4 * 3142 * robot_radius * robot_radius) \div 1000

\* 0.5 * rho * c_d * area / m, in 1/10000 per metre
DragCoefficient == RDiv(RDiv(rho * c_d * area, 2 * m), 10000)

\* wind_acceleration: 0.5 * rho * c_d * area * |v_wr| * v_wr / m
wind_acceleration(v_wr) ==
    PerAgent(LAMBDA i :
        LET v_wr_norm == Norm(v_wr[i])
        IN <<RDiv(DragCoefficient * RDiv(v_wr_norm * v_wr[i][1], 1000), 1000),
             RDiv(DragCoefficient * RDiv(v_wr_norm * v_wr[i][2], 1000), 1000)>>)

\* variant: the position advances by the velocity, not by dt * velocity
IntegratePosition_NoDt(pos, v) == <<pos[1] + v[1], pos[2] + v[2]>>

\* self.p[i, :] += self.dt * self.vel[i, :]
IntegratePosition(pos, v) ==
    <<pos[1] + RDiv(dt * v[1], 1000), pos[2] + RDiv(dt * v[2], 1000)>>

\* self.vel[i, :] += self.dt * (action[i, :] + wind_acceleration[i, :])
IntegrateVelocity(v, a, w) ==
    <<v[1] + RDiv(dt * (a[1] + w[1]), 1000), v[2] + RDiv(dt * (a[2] + w[2]), 1000)>>

\* _simulate_second_order(action, v_wr) from positions pos and velocities v
simulate_second_order(pos, v, action, v_wr) ==
    LET wa == wind_acceleration(v_wr)
    IN [p |-> PerAgent(LAMBDA i : IntegratePosition(pos[i], v[i])),
        vel |-> PerAgent(LAMBDA i : IntegrateVelocity(v[i], action[i], wa[i]))]

\* compute_reward at positions pos
compute_reward(pos) ==
    LET edge(i, j) == Norm(VSub(pos[i], pos[j]))
                      - Norm(VSub(formation_ref[i], formation_ref[j]))
        node(i) == edge(i, Neighbors(i)[1]) + edge(i, Neighbors(i)[2])
    IN node(0) + node(1) + node(2)

(***************************************************************************)
(* step                                                                    *)
(***************************************************************************)
\* variant: the warm-up ends one step early
WarmupOver_Early(it) == it >= warmup_iter

\* line 158: `self.iter > 100`
WarmupOver(it) == it > warmup_iter

\* line 159: leader_vel = 0.2 * K_p * (final_goal - leader_goal)
LeaderVel(goal) == <<RDiv(2 * K_p * (final_goal[1] - goal[1]), 10),
                     RDiv(2 * K_p * (final_goal[2] - goal[2]), 10)>>

\* line 160: self.leader_goal += self.dt * leader_vel
AdvanceGoal(goal, lv) == <<goal[1] + RDiv(dt * lv[1], 1000),
                           goal[2] + RDiv(dt * lv[2], 1000)>>

\* variant: the episode ends one step late
EpisodeDone_Strict(it) == it > max_episode_steps

\* line 194: done = (self.iter >= self._max_episode_steps)
EpisodeDone(it) == it >= max_episode_steps

\* the state is inside the range the fixed-point arithmetic covers
StateInRange == \A i \in Agents : InRange(p[i], MaxCoord) /\ InRange(vel[i], MaxSpeed)

NoIntegration == [called |-> FALSE, action |-> ZeroArray, v_wr |-> ZeroArray,
                  p |-> ZeroArray, vel |-> ZeroArray]

\* step(action): the state it leaves and what it returns.  A call that fails
\* in get_disturbance has already advanced the leader goal (line 160 runs
\* before line 173) and changes nothing else.
\* lines 181-196, the integrator having produced s from acc and v_wr
StepReturns(lv, goal, acc, v_we, v_wr, s) ==
    [finite |-> TRUE, p |-> s.p, vel |-> s.vel, leader_goal |-> goal,
     iter |-> iter + 1, rng |-> v_we.rng,
     turbulence_seeds |-> v_we.turbulence_seeds, direction |-> v_we.direction,
     leader_vel |-> lv, completed |-> 1,
     sim_in |-> [called |-> TRUE, action |-> acc, v_wr |-> v_wr, p |-> p, vel |-> vel],
     ret |-> [call |-> "step", err |-> "none", reward |-> compute_reward(s.p),
              done |-> EpisodeDone(iter + 1),
              current_t |-> v_we.current_t, idx_left |-> v_we.idx_left,
              idx_right |-> v_we.idx_right]]

\* lines 175-181: the relative wind, then the integrator
StepIntegrates(lv, goal, acc, v_we, v_wr) ==
    StepReturns(lv, goal, acc, v_we, v_wr, simulate_second_order(p, vel, acc, v_wr))

\* lines 173-196, get_disturbance having produced v_we
StepAfterQuery(lv, goal, acc, v_we) ==
    IF ~v_we.finite \/ \E i \in Agents : ~InRange(v_we.v[i], MaxSpeed)
    THEN [finite |-> FALSE]
    ELSE IF v_we.err # "none"
    THEN [finite |-> TRUE, p |-> p, vel |-> vel, leader_goal |-> goal, iter |-> iter,
          rng |-> rng, turbulence_seeds |-> turbulence_seeds, direction |-> direction,
          leader_vel |-> lv, sim_in |-> sim_in, completed |-> 0,
          ret |-> [call |-> "step", err |-> v_we.err, reward |-> 0, done |-> FALSE,
                   current_t |-> v_we.current_t, idx_left |-> v_we.idx_left,
                   idx_right |-> v_we.idx_right]]
    ELSE StepIntegrates(lv, goal, acc, v_we,
                        PerAgent(LAMBDA i : VSub(v_we.v[i], vel[i])))

\* lines 164-196, the leader goal having been advanced to goal
StepFromGoal(action, lv, goal) ==
    StepAfterQuery(lv, goal, ControlAcc(action, goal, lv), get_disturbance(p))

\* lines 158-196, leader_vel being lv
StepFromLeaderVel(action, lv) ==
    StepFromGoal(action, lv,
                 IF WarmupOver(iter) THEN AdvanceGoal(leader_goal, lv) ELSE leader_goal)

step(action) ==
    IF ~StateInRange THEN [finite |-> FALSE]
    ELSE StepFromLeaderVel(action,
                           IF WarmupOver(iter) THEN LeaderVel(leader_goal) ELSE Zero2)

(***************************************************************************)
(* reset                                                                   *)
(***************************************************************************)
\* what reset() assigns, np.random being in state x on entry.  In the NS
\* variant a failing load ends the call after lines 135-141 and 98-102 ran.
ResetOutcome(e) == [call |-> "reset", err |-> e, reward |-> 0, done |-> FALSE,
                    current_t |-> -1, idx_left |-> -1, idx_right |-> -1]

\* lines 146-147: what setup_random_turbulence leaves, t being its result
ResetRandom(t) ==
    [turbulence_seeds |-> t.turbulence_seeds, direction |-> t.direction,
     rng |-> t.rng, wind_sim_dict |-> wind_sim_dict,
     selected_sim |-> selected_sim, loaded |-> FALSE, ret |-> ResetOutcome("none")]

\* lines 148-149: what _setup_NS_turbulence leaves, t being its result
ResetNS(t) ==
    [turbulence_seeds |-> turbulence_seeds, direction |-> direction,
     rng |-> t.rng, wind_sim_dict |-> t.wind_sim_dict,
     selected_sim |-> t.selected_sim, loaded |-> t.loaded, ret |-> ResetOutcome(t.err)]

reset_assigns(x) ==
    [p |-> RandomPositions(x), vel |-> ZeroArray, iter |-> 0, done |-> FALSE]
    @@ (IF model = "random"
        THEN ResetRandom(setup_random_turbulence(RngAfter(x, 2 * n_agents)))
        ELSE ResetNS(setup_NS_turbulence(RngAfter(x, 2 * n_agents))))

\* variant: reset() puts the leader goal back to its initial value
reset_reinit(x) ==
    reset_assigns(x) @@ [leader_goal |-> initial_leader_goal, final_goal |-> final_goal,
                         formation_ref |-> formation_ref]

\* the state after reset(): what it assigns, and the attributes it leaves alone
reset(x) ==
    reset_assigns(x) @@ [leader_goal |-> leader_goal, final_goal |-> final_goal,
                         formation_ref |-> formation_ref]

(***************************************************************************)
(* The environment as a state machine                                      *)
(***************************************************************************)
\* the states np.random may be in when the environment is constructed
SeedSet == {104, 15, 7, 4, 124}

\* the action vectors a caller passes to step (length n_agents * action_dim)
ActionSet == {<<0, 0, 0, 0, 0, 0>>, <<500, -500, 250, 0, -250, 100>>}

SimNames == {all_sims[k] : k \in 1 .. Len(all_sims)}

\* __init__ with config.turbulence_model = tm and np.random in state x
Constructed(tm, x) ==
    /\ model = tm
    /\ p = RandomPositions(x)
    /\ vel = ZeroArray
    /\ leader_goal = initial_leader_goal
    /\ final_goal = initial_final_goal
    /\ formation_ref = initial_formation_ref
    /\ iter = 0
    /\ done = FALSE
    /\ IF tm = "random"
       THEN LET t == setup_random_turbulence(RngAfter(x, 2 * n_agents))
            IN /\ turbulence_seeds = t.turbulence_seeds
               /\ direction = t.direction
               /\ rng = t.rng
       ELSE /\ turbulence_seeds = PerSeed(LAMBDA k : Zero2)
            /\ direction = PerSeed(LAMBDA k : 0)
            /\ rng = RngAfter(x, 2 * n_agents)
    /\ wind_sim_dict = [n \in {} |-> EmptyEntry]
    /\ selected_sim = "None"
    /\ ret = [call |-> "init", err |-> "none", reward |-> 0, done |-> FALSE,
              current_t |-> -1, idx_left |-> -1, idx_right |-> -1]
    /\ leader_vel = Zero2
    /\ sim_in = NoIntegration
    /\ loads = [n \in SimNames |-> 0]
    /\ resets = 0
    /\ steps = 0
    /\ ep_steps = 0

Init == \E tm \in {"random", "NS"} : \E x \in SeedSet : Constructed(tm, x)

\* the attributes after reset(), r being what it assigned
ResetAssigned(r) ==
    /\ p' = r.p
    /\ vel' = r.vel
    /\ iter' = r.iter
    /\ done' = r.done
    /\ rng' = r.rng
    /\ turbulence_seeds' = r.turbulence_seeds
    /\ direction' = r.direction
    /\ wind_sim_dict' = r.wind_sim_dict
    /\ selected_sim' = r.selected_sim
    /\ leader_goal' = r.leader_goal
    /\ final_goal' = r.final_goal
    /\ formation_ref' = r.formation_ref
    /\ ret' = r.ret
    /\ loads' = IF r.loaded
                 THEN [loads EXCEPT ![r.selected_sim] = @ + 1]
                 ELSE loads

Reset ==
    /\ resets < MaxResets
    /\ \/ iter = 0
       \/ iter = ResetMid
       \/ iter >= max_episode_steps
       \/ ret.err # "none"
    /\ ResetAssigned(reset(rng))
    /\ resets' = resets + 1
    /\ ep_steps' = 0
    /\ UNCHANGED <<model, leader_vel, sim_in, steps>>

\* the attributes after step(action), r being what it left
StepAssigned(r) ==
    /\ r.finite
    /\ p' = r.p
    /\ vel' = r.vel
    /\ leader_goal' = r.leader_goal
    /\ iter' = r.iter
    /\ rng' = r.rng
    /\ turbulence_seeds' = r.turbulence_seeds
    /\ direction' = r.direction
    /\ leader_vel' = r.leader_vel
    /\ sim_in' = r.sim_in
    /\ ret' = r.ret
    /\ steps' = steps + r.completed
    /\ ep_steps' = ep_steps + r.completed

Step ==
    /\ steps < MaxTotalSteps
    /\ \E action \in ActionSet : StepAssigned(step(action))
    /\ UNCHANGED <<model, final_goal, formation_ref, done, wind_sim_dict,
                   selected_sim, loads, resets>>

Next == Reset \/ Step

Spec == Init /\ [][Next]_vars

\* the NS variant alone
InitNS == \E x \in SeedSet : Constructed("NS", x)

SpecNS == InitNS /\ [][Next]_vars

(***************************************************************************)
(* The integrator on its own: _simulate_second_order applied to bounded    *)
(* positions, velocities, commanded accelerations and relative winds.      *)
(***************************************************************************)
\* at most this many integrator calls in a behaviour
MaxIntegrations == 2

VelocitySet == {Zero2, <<1000, -2000>>, <<37, 250>>}
AccelerationSet == {ZeroArray, (0 :> <<500, 0>>) @@ (1 :> <<0, -300>>) @@ (2 :> <<40, 40>>)}
RelativeWindSet == {ZeroArray, (0 :> <<3000, 0>>) @@ (1 :> <<0, 0>>) @@ (2 :> <<-200, 900>>)}

InitIntegrator ==
    \E x \in SeedSet : \E v0, v1, v2 \in VelocitySet :
        /\ model = "random"
        /\ p = RandomPositions(x)
        /\ vel = (0 :> v0) @@ (1 :> v1) @@ (2 :> v2)
        /\ leader_goal = initial_leader_goal
        /\ final_goal = initial_final_goal
        /\ formation_ref = initial_formation_ref
        /\ iter = 0
        /\ done = FALSE
        /\ rng = RngAfter(x, 2 * n_agents)
        /\ turbulence_seeds = PerSeed(LAMBDA k : Zero2)
        /\ direction = PerSeed(LAMBDA k : 0)
        /\ wind_sim_dict = [n \in {} |-> EmptyEntry]
        /\ selected_sim = "None"
        /\ ret = [call |-> "init", err |-> "none", reward |-> 0, done |-> FALSE,
                  current_t |-> -1, idx_left |-> -1, idx_right |-> -1]
        /\ leader_vel = Zero2
        /\ sim_in = NoIntegration
        /\ loads = [n \in SimNames |-> 0]
        /\ resets = 0
        /\ steps = 0
        /\ ep_steps = 0

Integrated(s) == p' = s.p /\ vel' = s.vel

Integrate ==
    /\ steps < MaxIntegrations
    /\ StateInRange
    /\ \E action \in AccelerationSet : \E v_wr \in RelativeWindSet :
        /\ Integrated(simulate_second_order(p, vel, action, v_wr))
        /\ sim_in' = [called |-> TRUE, action |-> action, v_wr |-> v_wr,
                      p |-> p, vel |-> vel]
    /\ steps' = steps + 1
    /\ UNCHANGED <<model, leader_goal, final_goal, formation_ref, iter, done, rng,
                   turbulence_seeds, direction, wind_sim_dict, selected_sim, ret,
                   leader_vel, loads, resets, ep_steps>>

SpecIntegrator == InitIntegrator /\ [][Integrate]_vars

(***************************************************************************)
(* Properties                                                              *)
(***************************************************************************)
\* a step() call has returned normally
StepReturned == ret.call = "step" /\ ret.err = "none"

\* the NS variant has just answered or refused a disturbance query on a
\* simulation whose data is in the cache
QueriedLoaded ==
    /\ model = "NS"
    /\ ret.call = "step"
    /\ selected_sim \in DOMAIN wind_sim_dict
    /\ "v" \in wind_sim_dict[selected_sim].keys

\* the timestamps of the selected simulation, in load order
SelectedTimes == wind_sim_dict[selected_sim].t

TotalLoads == loads[all_sims[1]] + loads[all_sims[2]] + loads[all_sims[3]]
              + loads[all_sims[4]] + loads[all_sims[5]]

\* C1: counting the step() calls that returned since construction or the
\* last reset(), iter equals that count (it grows by one per step), and the
\* done that step() returns is true exactly when the count has reached
\* max_episode_steps = 450: false for the first 449 steps, true at the 450th,
\* whatever the positions and the reward are.
C1_DoneExactlyAtMaxSteps ==
    /\ iter = ep_steps
    /\ StepReturned => (ret.done <=> ep_steps >= max_episode_steps)

\* an episode started by reset() has run its 450th step
C1_Witness ==
    /\ resets >= 1
    /\ StepReturned
    /\ ep_steps = max_episode_steps
    /\ ret.done

\* C2: after reset(), whether it returned or failed while loading a
\* simulation, every coordinate of p lies within the bounds, every velocity
\* is zero and iter is 0.
C2_ResetPostState ==
    ret.call = "reset" =>
        /\ \A i \in Agents : /\ bounds[1] <= p[i][1] /\ p[i][1] <= bounds[2]
                             /\ bounds[3] <= p[i][2] /\ p[i][2] <= bounds[4]
        /\ \A i \in Agents : vel[i] = Zero2
        /\ iter = 0

\* reset() was called after a whole episode, the agents having moved
C2_Witness ==
    /\ ret.call = "reset"
    /\ ret.err = "none"
    /\ steps >= max_episode_steps
    /\ \E i \in Agents : sim_in.called /\ sim_in.vel[i] # Zero2

\* C3: in the NS variant, on a loaded simulation, a query at a time equal to
\* the final timestamp does not fail, and a query at a time beyond the final
\* timestamp fails with the out-of-range-time error.
C3_FinalTimestampInclusive ==
    QueriedLoaded =>
        LET last_t == SelectedTimes[Len(SelectedTimes)]
        IN /\ ret.current_t = last_t => ret.err = "none"
           /\ ret.current_t > last_t => ret.err = "AssertionError: time out of range"

\* C4: in the NS variant, a reset() that selects a simulation without data
\* files fails.
C4_EmptySimulationFails ==
    (model = "NS" /\ ret.call = "reset" /\ SimFolder(selected_sim) = {})
        => ret.err # "none"

\* C5: in the NS variant every simulation is read from disk at most once.  A
\* cache entry, once stored, is never modified or reloaded by a later call,
\* whichever simulation that call selects; an entry appears only for the
\* simulation a reset() selects, by its first load.
C5_LoadedAtMostOnce ==
    [][\A n \in SimNames :
         /\ loads'[n] <= 1
         /\ n \in DOMAIN wind_sim_dict =>
              /\ n \in DOMAIN wind_sim_dict'
              /\ wind_sim_dict'[n] = wind_sim_dict[n]
              /\ loads'[n] = loads[n]
         /\ (n \notin DOMAIN wind_sim_dict /\ n \in DOMAIN wind_sim_dict') =>
              /\ n = selected_sim'
              /\ loads[n] = 0
              /\ loads'[n] = 1]_vars

\* two resets selected the same simulation and it was read once
C5_Witness ==
    /\ model = "NS"
    /\ ret.call = "reset"
    /\ ret.err = "none"
    /\ resets = 2
    /\ TotalLoads = 1
    /\ loads[selected_sim] = 1
    /\ "v" \in wind_sim_dict[selected_sim].keys

C7_ActionIgnored ==
    \A a1, a2 \in ActionSet : step(a1) = step(a2)

\* a step() has been taken where two different actions were on offer
C7_Witness ==
    /\ StepReturned
    /\ \E a1, a2 \in ActionSet : a1 # a2 /\ step(a1).finite /\ step(a2).finite

\* C8: a step() entered with iter <= 100 leaves leader_goal unchanged and
\* uses a zero leader velocity; a step() entered with iter > 100 moves no
\* coordinate of leader_goal away from final_goal nor past it.
C8_GoalMovesAfterWarmup ==
    [][ret'.call = "step" =>
         IF iter <= warmup_iter
         THEN leader_goal' = leader_goal /\ leader_vel' = Zero2
         ELSE \A c \in 1 .. 2 :
                /\ Abs(final_goal[c] - leader_goal'[c]) <= Abs(final_goal[c] - leader_goal[c])
                /\ (leader_goal[c] - final_goal[c]) * (leader_goal'[c] - final_goal[c]) >= 0]_vars

\* the leader goal has moved after the warm-up
C8_Witness ==
    /\ StepReturned
    /\ iter > warmup_iter + 1
    /\ leader_vel # Zero2
    /\ leader_goal # initial_leader_goal
    /\ Abs(leader_goal[1]) < Abs(initial_leader_goal[1])

\* C9: an integrator call with zero commanded acceleration and zero relative
\* wind advances every position by dt times the velocity from before the
\* call and leaves every velocity unchanged.
C9_IntegratorIdentity ==
    (sim_in.called /\ sim_in.action = ZeroArray /\ sim_in.v_wr = ZeroArray) =>
        \A i \in Agents :
            /\ p[i][1] - sim_in.p[i][1] = RDiv(dt * sim_in.vel[i][1], 1000)
            /\ p[i][2] - sim_in.p[i][2] = RDiv(dt * sim_in.vel[i][2], 1000)
            /\ vel[i] = sim_in.vel[i]

\* such a call was made on moving agents, one of them at 10 m/s along x
C9_Witness ==
    /\ sim_in.called
    /\ sim_in.action = ZeroArray
    /\ sim_in.v_wr = ZeroArray
    /\ \E i \in Agents : sim_in.vel[i] = <<1000, -2000>> /\ p[i][1] = sim_in.p[i][1] + dt

\* C10: reset() leaves leader_goal, final_goal and formation_ref as they
\* were (the formation graph is a constant of the model), so an episode
\* starts with the leader goal the previous one ended with.
C10_ResetKeepsGoals ==
    [][ret'.call = "reset" =>
         /\ leader_goal' = leader_goal
         /\ final_goal' = final_goal
         /\ formation_ref' = formation_ref]_vars

\* an episode starts with a leader goal that is not the initial (2, 2)
C10_Witness ==
    /\ ret.call = "reset"
    /\ iter = 0
    /\ leader_goal # initial_leader_goal

====
